---- MODULE Spec2Model ----
(***************************************************************************)
(* Model of seriallogger.py: a serial line source is split into one log    *)
(* file per boot of the monitored XO.                                      *)
(*                                                                         *)
(* Text is modelled as a sequence of tokens.  A line read from the source  *)
(* is a sequence of one-character strings, so that str.find and re.search  *)
(* are computed character by character.  The fixed pieces of text the      *)
(* program itself produces (marker prefixes, the directory name, the       *)
(* constant part of a formatted time) are single multi-character tokens.   *)
(***************************************************************************)
EXTENDS Integers, Sequences, FiniteSets, TLC

(* ------------------------------ constants ------------------------------ *)

\* LOG_LENGTH_UNKEEPABLE, seriallogger.py line 28
LOG_LENGTH_UNKEEPABLE == 10

\* OFW_BANNER_MAX_LENGTH, seriallogger.py line 29
OFW_BANNER_MAX_LENGTH == 50

\* DESTDIR, seriallogger.py line 27
DESTDIR == <<"/tmp/logs">>

(* -------------------------------- bounds ------------------------------- *)

\* most lines one call of log_until_next_boot reads without closing
MaxData == 11

\* most lines of the run that are not the plain filler line
MaxSpecial == 2

\* the clock runs over the seconds 0..MaxClock of one minute
MaxClock == 1

(* ----------------------------- line universe --------------------------- *)

Unknown == <<"U","n","k","n","o","w","n">>

Noise == <<"n","o","i","s","e","\n">>

LineCForth == <<"x","C","F","o","r","t","h"," ","b","u","i","l","t"," ","2","0","2","1","\n">>

LineBanner == <<"S","/","N"," ","S","H","C","1","2","3","4","5","6","7","8","\n">>

LineBannerUnknown == <<"S","/","N"," ","U","n","k","n","o","w","n","\n">>

LineSigBanner == <<"F","o","r","t","h","m","a","c","s"," ","S","/","N"," ","C","S","N","0","0","0","0","_","0","0","1","\n">>

SpecialLines == {LineCForth, LineSigBanner, LineBanner, LineBannerUnknown}

SourceLines == {Noise} \cup SpecialLines

(* ----------------------------- pure functions -------------------------- *)

\* s[i..] starts with sub (i is 1-based)
StartsAt(sub, s, i) ==
    /\ i >= 1
    /\ i + Len(sub) - 1 <= Len(s)
    /\ \A k \in 1..Len(sub) : s[i + k - 1] = sub[k]

\* str.find: the 0-based index of the first occurrence of sub in s, or -1
Find(sub, s) ==
    LET hits == {i \in 1..Len(s) : StartsAt(sub, s, i)}
    IN  IF hits = {} THEN -1
        ELSE (CHOOSE i \in hits : \A j \in hits : i <= j) - 1

Forthmacs == <<"F","o","r","t","h","m","a","c","s">>

CForthBuilt == <<"C","F","o","r","t","h"," ","b","u","i","l","t">>

\* line 57 with the signatures looked for at the start of the line only
IsBootSignatureAnchored(line) ==
    Find(Forthmacs, line) = 0 \/ Find(CForthBuilt, line) = 0

\* the test of line 57
IsBootSignature(line) ==
    Find(Forthmacs, line) >= 0 \/ Find(CForthBuilt, line) >= 0

Digits == {"0","1","2","3","4","5","6","7","8","9"}

Lower == {"a","b","c","d","e","f","g","h","i","j","k","l","m",
          "n","o","p","q","r","s","t","u","v","w","x","y","z"}

Upper == {"A","B","C","D","E","F","G","H","I","J","K","L","M",
          "N","O","P","Q","R","S","T","U","V","W","X","Y","Z"}

\* the class \w of a Python str pattern
WordChars == Digits \cup Lower \cup Upper \cup {"_"}

SNMarker == <<"S","/","N"," ">>

\* [SC][HS][CN]\w{8} matches at s[i..i+10]
SerialAt(s, i) ==
    /\ i + 10 <= Len(s)
    /\ s[i] \in {"S","C"}
    /\ s[i + 1] \in {"H","S"}
    /\ s[i + 2] \in {"C","N"}
    /\ \A k \in 3..10 : s[i + k] \in WordChars

\* the whole pattern matches with its first character at s[i]
PatternAt(s, i) ==
    /\ StartsAt(SNMarker, s, i)
    /\ SerialAt(s, i + 4) \/ StartsAt(Unknown, s, i + 4)

\* group(1) of the match that starts at s[i]: the first alternative first
GroupAt(s, i) ==
    IF SerialAt(s, i + 4) THEN SubSeq(s, i + 4, i + 14) ELSE Unknown

\* the value of a failed re.search
NoMatch == <<>>

\* re.search('S/N ([SC][HS][CN]\w{8}|Unknown)', line).group(1), or NoMatch
SerialSearch(line) ==
    LET hits == {i \in 1..Len(line) : PatternAt(line, i)}
    IN  IF hits = {} THEN NoMatch
        ELSE GroupAt(line, CHOOSE i \in hits : \A j \in hits : i <= j)

DigitOf(t) == <<"0","1","2","3","4","5","6","7","8","9">>[t + 1]

\* time.strftime("%Y%m%d_%H%M%S", t) for the seconds of one minute
Stamp(t) == <<"20120101_00000", DigitOf(t)>>

\* time.asctime(t) for the seconds of one minute
Asctime(t) == <<"Sun Jan  1 00:00:0", DigitOf(t), " 2012">>

\* lines 44-45 without the identifier
DestFileNoSerial(t, sn) == DESTDIR \o <<"/">> \o Stamp(t)

\* destfile, lines 44-45
DestFile(t, sn) == DESTDIR \o <<"/">> \o Stamp(t) \o <<"-">> \o sn

\* the line written at lines 47-48
OpenMarker(sn, t) ==
    <<"--- Logfile started for '">> \o sn \o <<"' at ">> \o Asctime(t)
        \o <<" GMT ---\n">>

RebootDetected == "Reboot detected"

EOFTimeout == "EOF/timeout"

\* the line written at lines 59-61 and 71-72
CloseMarker(sn, t, reason) ==
    <<"--- Logfile closed for '">> \o sn \o <<"' at ">> \o Asctime(t)
        \o <<" GMT (", reason, ") ---\n">>

(* --------------------------------- state ------------------------------- *)

VARIABLES
    pc,               \* where main is
    now,              \* the UTC second the clock last showed
    storage,          \* DESTDIR: path -> lines of the file
    logfile,          \* the file object of log_until_next_boot
    destfile,         \* log_until_next_boot's destfile
    r_serialnum,      \* log_until_next_boot's serialnum parameter
    initiallines,     \* log_until_next_boot's initiallines parameter
    datalinecount,    \* log_until_next_boot's datalinecount
    need_another_run, \* main's need_another_run
    failsafe,         \* get_sn_banner's failsafe
    bannerlines,      \* get_sn_banner's bannerlines
    serialnum,        \* main's serialnum
    logdata,          \* main's logdata
    srcclosed,        \* datasource.close() was called
    exitcode,         \* -1 while running
    error,            \* the uncaught exception, or "none"
    specials,         \* lines of the run that were not Noise
    exhausted,        \* where the source ended: "no", "recording", "scanning"
    scanned,          \* history: the lines the running scan has consumed
    readlog,          \* history: the lines the running recorder has read
    sessions          \* history: one record per call of log_until_next_boot

vars == <<pc, now, storage, logfile, destfile, r_serialnum, initiallines,
          datalinecount, need_another_run, failsafe, bannerlines, serialnum,
          logdata, srcclosed, exitcode, error, specials, exhausted, scanned,
          readlog, sessions>>

recvars == <<r_serialnum, initiallines>>

scanvars == <<failsafe, bannerlines, serialnum, logdata, scanned>>

endvars == <<srcclosed, exitcode, error>>

NoFile == [buf |-> <<>>, open |-> FALSE]

Init ==
    /\ pc = "start"
    /\ now = 0
    /\ storage = <<>>
    /\ logfile = NoFile
    /\ destfile = <<>>
    /\ r_serialnum = <<>>
    /\ initiallines = <<>>
    /\ datalinecount = 0
    /\ need_another_run = FALSE
    /\ failsafe = 0
    /\ bannerlines = <<>>
    /\ serialnum = <<>>
    /\ logdata = <<>>
    /\ srcclosed = FALSE
    /\ exitcode = -1
    /\ error = "none"
    /\ specials = 0
    /\ exhausted = "no"
    /\ scanned = <<>>
    /\ readlog = <<>>
    /\ sessions = <<>>

\* the source may deliver this line now
Delivers(line) ==
    /\ line \in SourceLines
    /\ line # Noise => specials < MaxSpecial

Counted(line) == IF line = Noise THEN specials ELSE specials + 1

\* the exception is swallowed and main goes on to line 129
AbortSwallowed(name) ==
    /\ pc' = "closing"
    /\ error' = name
    /\ exitcode' = exitcode

\* an exception that nothing catches ends the process: the interpreter
\* prints the traceback and exits with status 1
Abort(name) ==
    /\ pc' = "crashed"
    /\ error' = name
    /\ exitcode' = 1

(* ------------------------- log_until_next_boot ------------------------- *)

\* open(destfile, "w"): the file exists and is empty
Created(path) == (path :> <<>>) @@ storage

\* logfile.close() that loses the last write
FlushedPartial(path, buf) == (path :> SubSeq(buf, 1, Len(buf) - 1)) @@ storage

\* logfile.close(): the written lines are in the file
Flushed(path, buf) == (path :> buf) @@ storage

\* os.unlink(destfile)
Unlinked(st, path) == [p \in (DOMAIN st) \ {path} |-> st[p]]

\* lines 63 and 74 with < for <=
UnkeepableStrict(count) == count < LOG_LENGTH_UNKEEPABLE

\* the test of lines 63 and 74
Unkeepable(count) == count <= LOG_LENGTH_UNKEEPABLE

\* lines 63-64 and 74-75
Retained(st, path, count) ==
    IF Unkeepable(count) THEN Unlinked(st, path) ELSE st

\* what became of the session whose artifact is path
Outcome(st, path) ==
    IF path \in DOMAIN st THEN "CLOSED_KEPT" ELSE "CLOSED_DISCARDED"

\* lines 52-53 left out
SeededNot(buf, seed) == buf

\* lines 52-53: logfile.writelines(initiallines)
Seeded(buf, seed) == buf \o seed

\* lines 52 and 54: datalinecount += len(initiallines)
SeedCount(seed) == Len(seed)

\* time.gmtime(): the clock never runs backwards
Clock(t) == t \in now..MaxClock

\* lines 43-54, entered at the second t
OpenSession(sn, seed, t) ==
    /\ now' = t
    /\ r_serialnum' = sn
    /\ initiallines' = seed
    /\ destfile' = DestFile(t, sn)
    /\ storage' = Created(DestFile(t, sn))
    /\ logfile' = [buf |-> Seeded(<<OpenMarker(sn, t)>>, seed), open |-> TRUE]
    /\ datalinecount' = SeedCount(seed)
    /\ readlog' = <<>>
    /\ sessions' = Append(sessions, [path |-> DestFile(t, sn), start |-> t,
                                     id |-> sn, state |-> "OPEN"])
    /\ pc' = "rec"

\* lines 58-65 and 71-76 without logfile.close(): the file object stays open
CloseSessionLeaky(last, reason, result, t) ==
    /\ now' = t
    /\ logfile' = [buf |-> logfile.buf \o last
                              \o <<CloseMarker(r_serialnum, t, reason)>>,
                   open |-> TRUE]
    /\ storage' = Retained(Flushed(destfile, logfile'.buf), destfile, datalinecount)
    /\ readlog' = readlog \o last
    /\ sessions' = sessions
    /\ need_another_run' = result
    /\ pc' = "ret"

\* lines 58-65 and 71-76: final writes at the second t, close, retention,
\* return
CloseSession(last, reason, result, t) ==
    /\ now' = t
    /\ logfile' = [buf |-> logfile.buf \o last
                              \o <<CloseMarker(r_serialnum, t, reason)>>,
                   open |-> FALSE]
    /\ storage' = Retained(Flushed(destfile, logfile'.buf), destfile, datalinecount)
    /\ readlog' = readlog \o last
    /\ sessions' = [sessions EXCEPT ![Len(sessions)].state = Outcome(storage', destfile)]
    /\ need_another_run' = result
    /\ pc' = "ret"

\* line 123: need_another_run = log_until_next_boot(datasource)
Start ==
    /\ pc = "start"
    /\ \E t \in 0..MaxClock : Clock(t) /\ OpenSession(Unknown, <<>>, t)
    /\ UNCHANGED <<need_another_run, specials, exhausted>>
    /\ UNCHANGED scanvars
    /\ UNCHANGED endvars

\* one iteration of the loop of lines 56-68
RecordLine ==
    /\ pc = "rec"
    /\ \E line \in SourceLines :
        /\ Delivers(line)
        /\ specials' = Counted(line)
        /\ IF IsBootSignature(line)
           THEN /\ \E t \in 0..MaxClock :
                     Clock(t) /\ CloseSession(<<line>>, RebootDetected, TRUE, t)
                /\ UNCHANGED datalinecount
           ELSE /\ datalinecount < MaxData
                /\ logfile' = [logfile EXCEPT !.buf = Append(@, line)]
                /\ readlog' = Append(readlog, line)
                /\ datalinecount' = datalinecount + 1
                /\ UNCHANGED <<now, storage, sessions, need_another_run, pc>>
    /\ UNCHANGED <<destfile, exhausted>>
    /\ UNCHANGED recvars
    /\ UNCHANGED scanvars
    /\ UNCHANGED endvars

\* lines 70-76 with return True
RecordEOFAgain ==
    /\ pc = "rec"
    /\ \E t \in 0..MaxClock : Clock(t) /\ CloseSession(<<>>, EOFTimeout, TRUE, t)
    /\ exhausted' = "recording"
    /\ UNCHANGED <<destfile, datalinecount, specials>>
    /\ UNCHANGED recvars
    /\ UNCHANGED scanvars
    /\ UNCHANGED endvars

\* the source times out or ends: lines 70-76
RecordEOF ==
    /\ pc = "rec"
    /\ \E t \in 0..MaxClock : Clock(t) /\ CloseSession(<<>>, EOFTimeout, FALSE, t)
    /\ exhausted' = "recording"
    /\ UNCHANGED <<destfile, datalinecount, specials>>
    /\ UNCHANGED recvars
    /\ UNCHANGED scanvars
    /\ UNCHANGED endvars

\* logfile.write raises IOError at line 58 or 67: nothing in the program
\* closes the file; whether the interpreter does while it shuts down is not
\* the program's doing
RecordWriteError ==
    /\ pc = "rec"
    /\ Abort("IOError")
    /\ \E finalized \in BOOLEAN :
        /\ logfile' = [logfile EXCEPT !.open = ~finalized]
        /\ storage' = IF finalized THEN Flushed(destfile, logfile.buf) ELSE storage
    /\ UNCHANGED <<now, destfile, datalinecount, need_another_run, srcclosed,
                   specials, exhausted, readlog, sessions>>
    /\ UNCHANGED recvars
    /\ UNCHANGED scanvars

(* ----------------------------- get_sn_banner --------------------------- *)

\* line 105 with >= for >
OverflowsEarly(count) == count >= OFW_BANNER_MAX_LENGTH

\* the test of line 105
Overflows(count) == count > OFW_BANNER_MAX_LENGTH

\* one iteration of the loop of lines 94-106
ScanLine ==
    /\ pc = "scan"
    /\ \E line \in SourceLines :
        /\ Delivers(line)
        /\ specials' = Counted(line)
        /\ bannerlines' = <<line>>
        /\ scanned' = Append(scanned, line)
        /\ IF SerialSearch(line) # NoMatch
           THEN /\ serialnum' = SerialSearch(line)
                /\ logdata' = bannerlines'
                /\ pc' = "got"
                /\ UNCHANGED <<failsafe, error, exitcode>>
           ELSE /\ failsafe' = failsafe + 1
                /\ IF Overflows(failsafe')
                   THEN Abort("BannerOverflow")
                   ELSE UNCHANGED <<pc, error, exitcode>>
                /\ UNCHANGED <<serialnum, logdata>>
    /\ UNCHANGED <<now, storage, logfile, destfile, datalinecount,
                   need_another_run, srcclosed, exhausted, readlog, sessions>>
    /\ UNCHANGED recvars

\* the source times out or ends: the function falls off its end and returns
\* None, its locals are gone, and line 125 cannot unpack None
ScanEOF ==
    /\ pc = "scan"
    /\ Abort("TypeError")
    /\ exhausted' = "scanning"
    /\ failsafe' = 0
    /\ bannerlines' = <<>>
    /\ scanned' = <<>>
    /\ UNCHANGED <<now, storage, logfile, destfile, datalinecount,
                   need_another_run, srcclosed, specials, readlog, sessions,
                   serialnum, logdata>>
    /\ UNCHANGED recvars

(* ---------------------------------- main ------------------------------- *)

\* line 124 as while False
NeedsScanNever == FALSE

\* line 124 with the condition negated
NeedsScanNegated == ~need_another_run

\* the condition of the while of line 124
NeedsScan == need_another_run

\* line 124, and line 93 of the call it leads to; the locals of the call
\* of log_until_next_boot that has returned are gone
LoopTest ==
    /\ pc = "ret"
    /\ IF NeedsScan
       THEN pc' = "scan" /\ failsafe' = 0 /\ scanned' = <<>>
       ELSE pc' = "closing" /\ UNCHANGED <<failsafe, scanned>>
    /\ logfile' = NoFile
    /\ destfile' = <<>>
    /\ r_serialnum' = <<>>
    /\ initiallines' = <<>>
    /\ datalinecount' = 0
    /\ readlog' = <<>>
    /\ UNCHANGED <<now, storage, need_another_run, bannerlines, serialnum,
                   logdata, specials, exhausted, sessions>>
    /\ UNCHANGED endvars

\* line 126; the locals of the call of get_sn_banner that has returned are
\* gone
CallRecorder ==
    /\ pc = "got"
    /\ \E t \in 0..MaxClock : Clock(t) /\ OpenSession(serialnum, logdata, t)
    /\ failsafe' = 0
    /\ bannerlines' = <<>>
    /\ scanned' = <<>>
    /\ UNCHANGED <<need_another_run, specials, exhausted, serialnum, logdata>>
    /\ UNCHANGED endvars

\* lines 129-130 with exit(1)
CloseSourceFailing ==
    /\ pc = "closing"
    /\ srcclosed' = TRUE
    /\ exitcode' = 1
    /\ pc' = "done"
    /\ UNCHANGED <<now, storage, logfile, destfile, datalinecount,
                   need_another_run, error, specials, exhausted, readlog,
                   sessions>>
    /\ UNCHANGED recvars
    /\ UNCHANGED scanvars

\* lines 129-130
CloseSource ==
    /\ pc = "closing"
    /\ srcclosed' = TRUE
    /\ exitcode' = 0
    /\ pc' = "done"
    /\ UNCHANGED <<now, storage, logfile, destfile, datalinecount,
                   need_another_run, error, specials, exhausted, readlog,
                   sessions>>
    /\ UNCHANGED recvars
    /\ UNCHANGED scanvars

Next ==
    \/ Start
    \/ RecordLine
    \/ RecordEOF
    \/ RecordWriteError
    \/ LoopTest
    \/ ScanLine
    \/ ScanEOF
    \/ CallRecorder
    \/ CloseSource

Spec == Init /\ [][Next]_vars

\* one thread runs main, and a read returns a line or, after the timeout of
\* line 122, the end of the source: a step that can be taken is taken
FairSpec == Spec /\ WF_vars(Next)

(* ------------------------ the controller's states ---------------------- *)

\* the state of the Session Controller of the design
Ctl ==
    CASE pc = "start" -> "INITIAL_RECORDING"
      [] pc \in {"rec", "ret"} /\ Len(sessions) = 1 -> "INITIAL_RECORDING"
      [] pc \in {"rec", "ret"} /\ Len(sessions) > 1 -> "RECORDING"
      [] pc \in {"scan", "got"} -> "AWAITING_BANNER"
      [] pc \in {"closing", "done"} -> "TERMINATED"
      [] OTHER -> "FAILED"

\* the sessions that are open
OpenSessions == {i \in 1..Len(sessions) : sessions[i].state = "OPEN"}

\* the line carries one of the two boot signatures, anywhere in it
CarriesSignature(line) ==
    \/ \E i \in 1..(Len(line) - 8) :
           SubSeq(line, i, i + 8) = <<"F","o","r","t","h","m","a","c","s">>
    \/ \E i \in 1..(Len(line) - 11) :
           SubSeq(line, i, i + 11) = <<"C","F","o","r","t","h"," ","b","u","i","l","t">>

\* the lines of the source that carry a signature
SignatureLines == {line \in SourceLines : CarriesSignature(line)}

HasSignature(line) == line \in SignatureLines

\* the lines of the file that the running or returned call read from the
\* source: what follows the open marker and the seed, the close marker left out
ReadLines ==
    LET last == IF logfile.open THEN Len(logfile.buf) ELSE Len(logfile.buf) - 1
    IN  SubSeq(logfile.buf, 2 + Len(initiallines), last)

\* the artifact of the returned call exists
ArtifactExists == destfile \in DOMAIN storage

(* -------------------------------- claims ------------------------------- *)

\* C1: when a call of log_until_next_boot has returned, for either close
\* reason, a line count of at most 10 means its artifact does not exist and a
\* line count above 10 means it exists.
RetentionPolicy ==
    pc = "ret" =>
        /\ datalinecount <= 10 => ~ArtifactExists
        /\ datalinecount > 10 => ArtifactExists

\* a session that ended with a reboot has been kept
RetentionPolicyWitness ==
    /\ pc = "ret"
    /\ need_another_run
    /\ datalinecount > 10
    /\ ArtifactExists

\* a session that ended with the source has been discarded
RetentionPolicyDiscarded ==
    /\ pc = "ret"
    /\ ~need_another_run
    /\ datalinecount = 10
    /\ ~ArtifactExists

\* C2: while a session records, no line it has read carries a signature; the
\* first that does is written as the last data line, followed by the close
\* marker "Reboot detected", the file is closed and the call returns true; a
\* call that returns false has read no signature line.
RebootDetection ==
    /\ pc = "rec" => \A i \in 1..Len(ReadLines) : ~HasSignature(ReadLines[i])
    /\ pc = "ret" =>
        LET n == Len(ReadLines)
        IN  /\ ~logfile.open
            /\ need_another_run <=>
                   logfile.buf[Len(logfile.buf)]
                       = CloseMarker(r_serialnum, now, "Reboot detected")
            /\ need_another_run <=> (n >= 1 /\ HasSignature(ReadLines[n]))
            /\ \A i \in 1..(n - 1) : ~HasSignature(ReadLines[i])

\* a session closed by a CForth signature after some lines
RebootDetectionWitness ==
    /\ pc = "ret"
    /\ need_another_run
    /\ Len(ReadLines) >= 3
    /\ ReadLines[Len(ReadLines)] = LineCForth

\* C5: at the close of every session the line count is the number of data
\* lines written, the signature line included: all lines of the file but the
\* two markers.
LineCountAccounting ==
    pc = "ret" => datalinecount = Len(logfile.buf) - 2

\* C10: when the source ends before a signature line, the call writes the
\* close marker "EOF/timeout", closes the file, applies the retention policy
\* and returns false; the line count is the number of data lines written, and
\* the controller goes on to TERMINATED.
EOFTermination ==
    /\ (pc = "ret" /\ exhausted = "recording") =>
        /\ ~need_another_run
        /\ ~logfile.open
        /\ logfile.buf[Len(logfile.buf)] = CloseMarker(r_serialnum, now, "EOF/timeout")
        /\ \A i \in 1..Len(ReadLines) : ~HasSignature(ReadLines[i])
        /\ datalinecount = Len(logfile.buf) - 2
        /\ datalinecount = Len(initiallines) + Len(ReadLines)
        /\ ArtifactExists <=> datalinecount > 10
    /\ exhausted = "recording" => pc \in {"ret", "closing", "done"}
    /\ (pc \in {"closing", "done"} /\ exhausted = "recording") => error = "none"

\* five lines, then the source ends: the artifact is deleted
EOFTerminationWitness ==
    /\ pc = "ret"
    /\ exhausted = "recording"
    /\ datalinecount = 5
    /\ Len(ReadLines) = 5
    /\ ~ArtifactExists

\* the lines of the source that the identifier pattern matches
MatchingLines == {line \in SourceLines : SerialSearch(line) # NoMatch}

Matches(line) == line \in MatchingLines

\* C3: a scan that returns has stopped at the first matching line, and returns
\* that line's identifier with every line it consumed, in order, the matching
\* line last.
BannerCapture ==
    pc = "got" =>
        /\ Len(scanned) >= 1
        /\ \A i \in 1..(Len(scanned) - 1) : ~Matches(scanned[i])
        /\ Matches(scanned[Len(scanned)])
        /\ serialnum = SerialSearch(scanned[Len(scanned)])
        /\ logdata = scanned

\* C4: when the source ends during a scan that has found no match, the
\* controller goes to TERMINATED: no error, no session open.
ScanExhaustion ==
    exhausted = "scanning" =>
        /\ pc \in {"closing", "done"}
        /\ error = "none"
        /\ OpenSessions = {}

\* C6: a scan aborts exactly on its 51st line without a match: an aborted
\* scan has consumed 51 lines, none matching, and returned nothing; a scan
\* still running has consumed at most 50; a scan whose matching line follows
\* at most 50 others returns.
BannerOverflowThreshold ==
    /\ error = "BannerOverflow" =>
        /\ pc = "crashed"
        /\ Len(scanned) = 51
        /\ \A i \in 1..51 : ~Matches(scanned[i])
    /\ pc = "scan" =>
        /\ error = "none"
        /\ Len(scanned) <= 50
        /\ \A i \in 1..Len(scanned) : ~Matches(scanned[i])
    /\ pc = "got" =>
        /\ error = "none"
        /\ Len(scanned) <= 51
        /\ Matches(scanned[Len(scanned)])

\* the scan has aborted
BannerOverflowWitness ==
    /\ error = "BannerOverflow"
    /\ Len(scanned) = 51

\* a matching line after 50 others is returned
BannerOverflowBoundary ==
    /\ pc = "got"
    /\ Len(scanned) = 51

\* C7: the controller starts in INITIAL_RECORDING and its first call of the
\* recorder has the identifier 'Unknown' and no seed; it leaves
\* INITIAL_RECORDING or RECORDING only when the recorder has returned, for
\* AWAITING_BANNER exactly when that returned true and for TERMINATED exactly
\* when it returned false; a scan starts, and reads, only in AWAITING_BANNER.
\* (A process that an uncaught exception ends is in no state of the
\* controller.)
ControllerTransitions ==
    /\ Ctl = "INITIAL_RECORDING"
    /\ [](Len(sessions) = 1 /\ pc \in {"rec", "ret"} =>
              r_serialnum = Unknown /\ initiallines = <<>>)
    /\ [][/\ (Ctl \in {"INITIAL_RECORDING", "RECORDING"} /\ Ctl' \notin {Ctl, "FAILED"}) =>
                /\ pc = "ret"
                /\ need_another_run => Ctl' = "AWAITING_BANNER"
                /\ ~need_another_run => Ctl' = "TERMINATED"
          /\ (pc = "ret" /\ pc' # "ret") =>
                Ctl' = IF need_another_run THEN "AWAITING_BANNER" ELSE "TERMINATED"
          /\ (Ctl' = "AWAITING_BANNER" /\ Ctl # "AWAITING_BANNER") =>
                /\ pc = "ret"
                /\ need_another_run
                /\ HasSignature(ReadLines[Len(ReadLines)])
          /\ scanned' # scanned /\ scanned' # <<>> => Ctl = "AWAITING_BANNER"
       ]_vars

\* a run through all four states: two sessions, then the source ended
ControllerTransitionsWitness ==
    /\ Ctl = "TERMINATED"
    /\ Len(sessions) = 2

\* C8 as stated: while the recorder or the scanner is at work, exactly one
\* session is OPEN.
ExactlyOneOpen ==
    pc \in {"rec", "scan"} => Cardinality(OpenSessions) = 1

\* C8, amended: never two sessions are OPEN; exactly one is, the latest,
\* while the recorder is at work, and none while the scanner is at work or
\* between the calls; a session that has left OPEN is CLOSED_KEPT or
\* CLOSED_DISCARDED, as its artifact exists or not when the recorder returns,
\* and its state never changes again. (A recorder that a write failure stops
\* leaves its session OPEN for good.)
SessionStates ==
    /\ [](/\ Cardinality(OpenSessions) <= 1
          /\ pc = "rec" => OpenSessions = {Len(sessions)} /\ logfile.open
          /\ pc \notin {"rec", "crashed"} => OpenSessions = {} /\ ~logfile.open
          /\ pc = "crashed" =>
                OpenSessions = IF error = "IOError" THEN {Len(sessions)} ELSE {}
          /\ \A i \in 1..Len(sessions) :
                sessions[i].state \in {"OPEN", "CLOSED_KEPT", "CLOSED_DISCARDED"}
          /\ pc = "ret" =>
                sessions[Len(sessions)].state
                    = IF ArtifactExists THEN "CLOSED_KEPT" ELSE "CLOSED_DISCARDED")
    /\ [][\A i \in 1..Len(sessions) :
              sessions[i].state # "OPEN" =>
                  /\ i <= Len(sessions')
                  /\ sessions'[i] = sessions[i]]_vars

\* the scanner is at work after a kept session, and no session is open
SessionStatesWitness ==
    /\ pc = "scan"
    /\ Len(scanned) >= 1
    /\ OpenSessions = {}
    /\ sessions[1].state = "CLOSED_KEPT"

\* C9: a session that follows a scan has the identifier and the lines the
\* scan returned; its file holds the open marker, then those lines in order,
\* then the lines read from the source, and its line count is the number of
\* seed lines plus the number of lines read and counted.
Seeding ==
    (pc \in {"rec", "ret"} /\ Len(sessions) >= 2) =>
        /\ r_serialnum = serialnum
        /\ initiallines = logdata
        /\ Len(initiallines) >= 1
        /\ Len(logfile.buf) >= 1 + Len(logdata)
        /\ logfile.buf[1] = OpenMarker(serialnum, CHOOSE t \in 0..now :
                                           destfile = DestFile(t, serialnum))
        /\ SubSeq(logfile.buf, 2, 1 + Len(logdata)) = logdata
        /\ datalinecount >= Len(logdata)
        /\ pc = "rec" => datalinecount = Len(logdata) + Len(ReadLines)
        /\ pc = "rec" => Len(logfile.buf) = 1 + Len(logdata) + Len(ReadLines)

\* a seeded session has read two lines after its seed
SeedingWitness ==
    /\ pc = "rec"
    /\ Len(sessions) = 2
    /\ serialnum = <<"S","H","C","1","2","3","4","5","6","7","8">>
    /\ Len(ReadLines) = 2

\* C11: once the controller is in TERMINATED it stays there, opens no
\* session, starts no scan and reads no line; it closes the source once, with
\* exit code 0, and the process ends; the source is closed in no other state
\* of the controller, and exit code 0 comes only with the close.
TerminatedAbsorbing ==
    /\ [](/\ srcclosed => Ctl = "TERMINATED" /\ pc = "done" /\ exitcode = 0
          /\ exitcode = 0 => srcclosed
          /\ Ctl = "TERMINATED" => error = "none")
    /\ [][/\ Ctl = "TERMINATED" =>
                /\ Ctl' = "TERMINATED"
                /\ sessions' = sessions
                /\ scanned' = scanned
                /\ readlog' = readlog
                /\ specials' = specials
                /\ logfile' = logfile
                /\ storage' = storage
                /\ srcclosed' /\ exitcode' = 0
          /\ ~srcclosed
       ]_vars

\* the source has been closed after two sessions
TerminatedAbsorbingWitness ==
    /\ srcclosed
    /\ exitcode = 0
    /\ pc = "done"
    /\ Len(sessions) = 2

\* C12: a scan that overflows ends the process with the error and exit code
\* 1, in AWAITING_BANNER and without the successful exit: the source is not
\* closed by the program, no step follows, so no scan, no session and no read.
BannerOverflowFatal ==
    /\ [](error = "BannerOverflow" =>
              /\ pc = "crashed"
              /\ exitcode = 1
              /\ ~srcclosed
              /\ Ctl = "FAILED")
    /\ [][/\ error # "BannerOverflow"
          /\ error' = "BannerOverflow" =>
                /\ Ctl = "AWAITING_BANNER"
                /\ sessions' = sessions
                /\ storage' = storage
       ]_vars

\* the scan that followed a kept first session has overflowed
BannerOverflowFatalWitness ==
    /\ error = "BannerOverflow"
    /\ exitcode = 1
    /\ Len(sessions) = 1
    /\ sessions[1].state = "CLOSED_KEPT"

\* the reason the returned call wrote into its close marker
CloseReason == IF need_another_run THEN RebootDetected ELSE EOFTimeout

\* C13: the artifact of a session that was kept holds the open marker of its
\* start, then the seed lines, then the lines read from the source, each once
\* and in order, then the close marker; no line between the two is a marker.
ArtifactContent ==
    (pc = "ret" /\ ArtifactExists) =>
        LET file == storage[destfile]
        IN  /\ file = <<OpenMarker(r_serialnum, sessions[Len(sessions)].start)>>
                          \o initiallines \o readlog
                          \o <<CloseMarker(r_serialnum, now, CloseReason)>>
            /\ \A i \in 2..(Len(file) - 1) : file[i] \in SourceLines
            /\ file[1] \notin SourceLines
            /\ file[Len(file)] \notin SourceLines

\* a seeded session that read ten lines has been kept
ArtifactContentWitness ==
    /\ pc = "ret"
    /\ ArtifactExists
    /\ Len(initiallines) = 1
    /\ Len(readlog) = 10
    /\ Len(storage[destfile]) = 13

\* C14: when an uncaught exception has ended the process, no session is OPEN
\* and the file of the session that was being recorded has been closed.
ReleaseOnFatalPath ==
    pc = "crashed" =>
        /\ OpenSessions = {}
        /\ ~logfile.open

\* the letters and digits
Alphanumeric == Digits \cup Lower \cup Upper

\* 'Unknown', or three letters of the three classes and eight letters or
\* digits
WellFormed(sn) ==
    \/ sn = Unknown
    \/ /\ Len(sn) = 11
       /\ sn[1] \in {"S", "C"}
       /\ sn[2] \in {"H", "S"}
       /\ sn[3] \in {"C", "N"}
       /\ \A k \in 4..11 : sn[k] \in Alphanumeric

\* C15: the identifier a scan returns is 'Unknown' or has the 11 characters
\* of the format, the last eight of them letters or digits, and stands in the
\* matching line right after 'S/N '.
IdentifierFormat ==
    pc = "got" =>
        /\ WellFormed(serialnum)
        /\ \E i \in 1..Len(scanned[Len(scanned)]) :
               StartsAt(SNMarker \o serialnum, scanned[Len(scanned)], i)

\* C16: the path of a session's artifact is determined by the second it
\* started in and its identifier: two sessions with the same second and
\* identifier have the same path, and two sessions of the same second with
\* different identifiers have different paths; the running call writes to
\* that path.
Naming ==
    /\ \A i, j \in 1..Len(sessions) :
           /\ (sessions[i].start = sessions[j].start
                   /\ sessions[i].id = sessions[j].id) =>
                  sessions[i].path = sessions[j].path
           /\ (sessions[i].start = sessions[j].start
                   /\ sessions[i].id # sessions[j].id) =>
                  sessions[i].path # sessions[j].path
    /\ pc \in {"rec", "ret"} =>
           /\ destfile = sessions[Len(sessions)].path
           /\ sessions[Len(sessions)].id = r_serialnum
           /\ sessions[Len(sessions)].start <= now
    /\ pc = "rec" => destfile \in DOMAIN storage

\* two sessions of the same second, for 'Unknown' and for a serial number
NamingWitness ==
    /\ Len(sessions) = 2
    /\ sessions[1].start = sessions[2].start
    /\ sessions[1].id = Unknown
    /\ sessions[2].id = <<"S","H","C","1","2","3","4","5","6","7","8">>
    /\ sessions[1].path # sessions[2].path
    /\ sessions[1].state = "CLOSED_KEPT"
    /\ pc = "rec"

\* the process has ended
Stopped == pc \in {"done", "crashed"}

\* C17: a run over a finite source ends, in TERMINATED or with an uncaught
\* exception; it ends in TERMINATED only after the source ended under a
\* recording session, with an exception only with the error that ended it,
\* and a process that has not ended can take a step.
Termination ==
    /\ <>Stopped
    /\ [](/\ pc = "done" => exhausted = "recording" /\ error = "none"
          /\ pc = "crashed" => error \in {"BannerOverflow", "IOError", "TypeError"}
          /\ error = "TypeError" => exhausted = "scanning"
          /\ ~Stopped => ENABLED Next)

\* what is left of the run: the lines other than the filler still to come,
\* then the place in main, then the lines the running call may still read
Rank ==
    (MaxSpecial - specials) * 200
        + CASE pc = "start" -> 150
            [] pc = "got" -> 120
            [] pc = "rec" -> 60 + (MaxData - datalinecount)
            [] pc = "ret" -> 55
            [] pc = "scan" -> 2 + (OFW_BANNER_MAX_LENGTH + 1 - failsafe)
            [] pc = "closing" -> 1
            [] OTHER -> 0

\* termination without fairness: every step lowers Rank, which is never
\* negative, and only a process that has ended has no step to take
TerminationVariant ==
    /\ [](Rank >= 0 /\ (~Stopped => ENABLED Next))
    /\ [][Rank' < Rank]_vars

\* the run has ended in TERMINATED after two sessions, the second one kept
TerminationWitness ==
    /\ Stopped
    /\ exhausted = "recording"
    /\ Len(sessions) = 2
    /\ sessions[2].state = "CLOSED_KEPT"

\* C18: no step deletes or changes the artifact of a session that was closed
\* as kept.
KeptArtifactsDurable ==
    [][\A i \in 1..Len(sessions) :
          (sessions[i].state = "CLOSED_KEPT" /\ sessions[i].path \in DOMAIN storage) =>
              /\ sessions[i].path \in DOMAIN storage'
              /\ storage'[sessions[i].path] = storage[sessions[i].path]]_vars

\* the data lines of the running or returned call's file: all but the markers
DataLines ==
    SubSeq(logfile.buf, 2, IF logfile.open THEN Len(logfile.buf)
                                           ELSE Len(logfile.buf) - 1)

\* C19: every line read is a data line of one session, in the order read:
\* the data lines of a session are its seed and then the lines its recorder
\* read, and the seed a scan hands over is every line that scan consumed.
NoLineLost ==
    [][/\ pc' \in {"rec", "ret"} => DataLines' = initiallines' \o readlog'
       /\ (pc = "got" /\ pc' = "rec") => initiallines' = scanned
      ]_vars

\* C20: a data line that carries a signature is the last data line of a
\* session that it closed: a session still recording has none among its data
\* lines, the seed lines included, and a closed one at most its last.
OneRebootPerSession ==
    pc \in {"rec", "ret"} =>
        LET data == initiallines \o readlog
        IN  \A i \in 1..Len(data) :
                HasSignature(data[i]) =>
                    /\ pc = "ret"
                    /\ need_another_run
                    /\ i = Len(data)

====
